---------------------------- MODULE Spec2Model ----------------------------
(***************************************************************************)
(* A model of pibot (src/src/main.rs): the firehose mention filter, the    *)
(* query extractor, the reply composer, the reply-thread resolver, the     *)
(* per-event reply cycle and the streaming loop.                           *)
(*                                                                         *)
(* Strings the program inspects character by character are sequences of    *)
(* one-character strings.  Option values are records tagged None / Some.   *)
(***************************************************************************)
EXTENDS Integers, Sequences, FiniteSets, TLC

VARIABLES
    pc,         \* control state of the running operation
    dry_run,    \* cli.dry_run
    chan,       \* events buffered by the jetstream receiver, oldest first
    closed,     \* the jetstream connection has closed
    nsent,      \* events delivered by the source / commits handed to the handler
    cur,        \* the (event_did, commit) item the loop body or handler holds
    tasks,      \* handler futures created and not yet completed
    started,    \* ids of the items whose handling started, in order
    out,        \* lines printed to stdout
    searches,   \* search_pi calls issued, with their outcome
    calls,      \* agent.create_record calls issued, with their outcome
    arg,        \* arguments of the function being applied
    ret,        \* its return value
    thread,     \* posts of one reply thread, oldest first
    command,    \* cli.command
    clock,      \* the UTC day chrono::Utc::now() falls in, counted from DAY0
    locals      \* main's let bindings: number, search_result, post_content

vars == <<pc, dry_run, chan, closed, nsent, cur, tasks, started, out,
          searches, calls, arg, ret, thread,
                   command, clock, locals>>

pipeVars == <<pc, dry_run, chan, closed, nsent, cur, tasks, started, out,
              searches, calls, command, clock, locals>>

----------------------------------------------------------------------------
\* Option<T>

None == [tag |-> "None"]

Some(v) == [tag |-> "Some", val |-> v]

Pending == [tag |-> "Pending"]

NoItem == [id |-> 0]

NoLocals == [number |-> None, search_result |-> None, post_content |-> None]

Max(S) == CHOOSE x \in S : \A y \in S : y <= x

Min(S) == CHOOSE x \in S : \A y \in S : x <= y

Last(s) == s[Len(s)]

RECURSIVE Concat(_)
Concat(ss) == IF ss = <<>> THEN <<>> ELSE Head(ss) \o Concat(Tail(ss))

SeqsUpTo(S, n) == UNION {[1..k -> S] : k \in 0..n}

----------------------------------------------------------------------------
\* extract_number: the regex (the literal @pisearch, a run of non-digits,
\* then group 1: a digit followed by a run of digits and hyphens) and the
\* removal of the hyphens.

TRIGGER == <<"@", "p", "i", "s", "e", "a", "r", "c", "h">>

Digit == {"0", "1", "2", "3", "4", "5", "6", "7", "8", "9"}

IsDigit(c) == c \in Digit

\* The literal @pisearch occupies positions i .. i+8 of t.
LiteralAt(t, i) ==
    /\ i + Len(TRIGGER) - 1 <= Len(t)
    /\ SubSeq(t, i, i + Len(TRIGGER) - 1) = TRIGGER

\* A skip that also stops at a hyphen (the class written as "neither digit
\* nor hyphen").
NonDigitRunEnds_StopAtHyphen(t, j) ==
    {k \in j..(Len(t) + 1) : \A m \in j..(k - 1) : ~IsDigit(t[m]) /\ t[m] # "-"}

\* The run of non-digits started at j may stop before any position k of
\* this set.
NonDigitRunEnds(t, j) ==
    {k \in j..(Len(t) + 1) : \A m \in j..(k - 1) : ~IsDigit(t[m])}

\* The run of digits and hyphens after the digit at k is greedy and nothing
\* follows it in the pattern.
CaptureEnd(t, k) ==
    Max({e \in k..Len(t) : \A m \in (k + 1)..e : IsDigit(t[m]) \/ t[m] = "-"})

\* The match anchored at i: group 1, or None.  The skip is greedy: of the
\* stops after which a digit matches, the regex takes the furthest.
MatchAt(t, i) ==
    IF ~LiteralAt(t, i) THEN None
    ELSE LET j == i + Len(TRIGGER)
             ks == {k \in NonDigitRunEnds(t, j) : k <= Len(t) /\ IsDigit(t[k])}
         IN  IF ks = {} THEN None
             ELSE LET k == Max(ks) IN Some(SubSeq(t, k, CaptureEnd(t, k)))

\* Regex::captures: the leftmost position at which the pattern matches.
captures(t) ==
    LET starts == {i \in 1..Len(t) : MatchAt(t, i) # None}
    IN  IF starts = {} THEN None ELSE MatchAt(t, Min(starts))

\* str::replace(c, "")
replace(s, c) == SelectSeq(s, LAMBDA x : x # c)

\* The extractor without the hyphen removal.
extract_number_KeepHyphens(t) ==
    LET cap == captures(t)
    IN  IF cap = None THEN None
        ELSE IF cap.val = <<>> THEN None ELSE Some(cap.val)

extract_number(t) ==
    LET cap == captures(t)
    IN  IF cap = None THEN None
        ELSE LET number == replace(cap.val, "-")
             IN  IF number = <<>> THEN None ELSE Some(number)

----------------------------------------------------------------------------
\* Inputs of the extractor: texts made of at most MaxSegs segments.

MaxSegs == 5

Segments == {TRIGGER, <<"@", "p", "i">>, <<"1">>, <<"2">>, <<"-">>, <<" ">>, <<"x">>}

Texts == {Concat(ss) : ss \in SeqsUpTo(Segments, MaxSegs)}

PipeOff ==
    /\ pc = "off" /\ dry_run = FALSE /\ chan = <<>> /\ closed = FALSE
    /\ nsent = 0 /\ cur = NoItem /\ tasks = <<>> /\ started = <<>>
    /\ out = <<>> /\ searches = <<>> /\ calls = <<>>
    /\ command = "none" /\ clock = 0 /\ locals = NoLocals

ExtractInit ==
    /\ PipeOff
    /\ arg \in Texts
    /\ ret = Pending
    /\ thread = <<>>

ExtractNumber ==
    /\ ret = Pending
    /\ ret' = extract_number(arg)
    /\ UNCHANGED <<pipeVars, arg, thread>>

ExtractNext == ExtractNumber

ExtractSpec == ExtractInit /\ [][ExtractNext]_vars

\* The extraction rule as the specification words it, from the first trigger
\* alone.
TriggerStarts(t) == {i \in 1..Len(t) : LiteralAt(t, i)}

AfterFirstTrigger(t) == Min(TriggerStarts(t)) + Len(TRIGGER)

DigitsFrom(t, j) == {d \in j..Len(t) : IsDigit(t[d])}

RECURSIVE RunFrom(_, _)
RunFrom(t, d) ==
    IF d > Len(t) \/ ~(IsDigit(t[d]) \/ t[d] = "-") THEN <<>>
    ELSE <<t[d]>> \o RunFrom(t, d + 1)

RECURSIVE StripHyphens(_)
StripHyphens(s) ==
    IF s = <<>> THEN <<>>
    ELSE IF Head(s) = "-" THEN StripHyphens(Tail(s))
    ELSE <<Head(s)>> \o StripHyphens(Tail(s))

FirstTriggerQuery(t) ==
    IF TriggerStarts(t) = {} THEN None
    ELSE LET ds == DigitsFrom(t, AfterFirstTrigger(t))
         IN  IF ds = {} THEN None
             ELSE Some(StripHyphens(RunFrom(t, Min(ds))))

\* C5: extract_number returns the digit-and-hyphen run that starts at the
\* first digit after the first @pisearch, with the hyphens removed; a value
\* it returns is a non-empty string of digits; later triggers and their
\* numbers never decide the result.
C5_FirstTriggerRun ==
    ret # Pending =>
        /\ ret = FirstTriggerQuery(arg)
        /\ ret # None =>
            /\ ret.val # <<>>
            /\ \A i \in 1..Len(ret.val) : IsDigit(ret.val[i])

\* Two triggers, each followed by its own number, and a hyphen in the run
\* of the first: the first number is returned without the hyphen.
C5_Witness ==
    /\ arg = TRIGGER \o <<"1", "-">> \o TRIGGER \o <<"2">>
    /\ ret = Some(<<"1">>)

NoDigitAfterFirstTrigger(t) ==
    \/ TriggerStarts(t) = {}
    \/ DigitsFrom(t, AfterFirstTrigger(t)) = {}

OnlyNonDigitNonHyphenAfterFirstTrigger(t) ==
    \/ TriggerStarts(t) = {}
    \/ \A m \in AfterFirstTrigger(t)..Len(t) : ~IsDigit(t[m]) /\ t[m] # "-"

\* C6 as amended: extract_number returns None exactly when the text holds
\* no trigger or no digit follows the first trigger (hyphens do not count).
C6_NoneIffNoDigitAfterTrigger ==
    ret # Pending => (ret = None <=> NoDigitAfterFirstTrigger(arg))

\* C6 as stated: None exactly when the text holds no trigger or the trigger
\* is followed only by characters that are neither digit nor hyphen.
C6_AsStated ==
    ret # Pending => (ret = None <=> OnlyNonDigitNonHyphenAfterFirstTrigger(arg))

\* A trigger followed by a hyphen and later a digit yields a query; a
\* trigger followed by hyphens alone yields None.
C6_Witness ==
    /\ TriggerStarts(arg) # {}
    /\ \E m \in AfterFirstTrigger(arg)..Len(arg) : arg[m] = "-"
    /\ DigitsFrom(arg, AfterFirstTrigger(arg)) = {}
    /\ ret = None

----------------------------------------------------------------------------
\* create_response: the text of a post, as the template chosen and the values
\* formatted into it.

SORRY == "Sorry, I couldn't find {number} in the first 200m digits of Pi."

RATS == "Rats, I couldn't find {number} in the first 200m digits of Pi."

FOUND == "I found {} at position {}. It appears {} times in the first 200 million digits of pi.{extra}"

\* The composer without the test of the first entry's status.
create_response_NoStatusTest(search_result, number, extra) ==
    IF search_result.r = <<>>
    THEN [tmpl |-> SORRY, number |-> number]
    ELSE LET entry == Head(search_result.r)
         IN  [tmpl |-> FOUND, number |-> number, p |-> entry.p,
              times |-> Len(search_result.r), extra |-> extra]

create_response(search_result, number, extra) ==
    IF search_result.r = <<>>
    THEN [tmpl |-> SORRY, number |-> number]
    ELSE LET entry == Head(search_result.r)
         IN  IF entry.status = "notfound"
             THEN [tmpl |-> RATS, number |-> number]
             ELSE [tmpl |-> FOUND, number |-> number, p |-> entry.p,
                   times |-> Len(search_result.r), extra |-> extra]

\* Inputs of the composer: results of at most MaxMatches entries at positions
\* up to MaxPos.
MaxMatches == 2

MaxPos == 2

THANKS == "  Thanks for searching!"

ResultEntries == [status : {"found", "notfound"}, p : 1..MaxPos]

PiSearchResults == [status : {"ok", "error"}, r : SeqsUpTo(ResultEntries, MaxMatches)]

Numbers == {<<"4", "2">>, <<"7">>}

ResponseInit ==
    /\ PipeOff
    /\ arg \in [search_result : PiSearchResults, number : Numbers, extra : {"", THANKS}]
    /\ ret = Pending
    /\ thread = <<>>

CreateResponse ==
    /\ ret = Pending
    /\ ret' = create_response(arg.search_result, arg.number, arg.extra)
    /\ UNCHANGED <<pipeVars, arg, thread>>

ResponseNext == CreateResponse

ResponseSpec == ResponseInit /\ [][ResponseNext]_vars

IsNotFoundMessage(m) == m.tmpl \in {SORRY, RATS}

IsFoundMessage(m) == m.tmpl = FOUND

\* C7: create_response returns the not-found message naming the query when
\* the match list is empty or its first entry has status "notfound", and
\* otherwise the found message naming the query, the first entry's position
\* and the length of the match list; never both and never neither.
C7_BranchSelection ==
    ret # Pending =>
        LET r == arg.search_result.r
            notfound == r = <<>> \/ r[1].status = "notfound"
        IN  /\ IsNotFoundMessage(ret) # IsFoundMessage(ret)
            /\ notfound => IsNotFoundMessage(ret) /\ ret.number = arg.number
            /\ ~notfound =>
                /\ IsFoundMessage(ret)
                /\ ret.number = arg.number
                /\ ret.p = r[1].p
                /\ ret.times = Len(r)

\* A result whose first entry is "notfound" and whose second is "found":
\* the not-found message is chosen.
C7_Witness ==
    /\ Len(arg.search_result.r) = 2
    /\ arg.search_result.r[1].status = "notfound"
    /\ arg.search_result.r[2].status = "found"
    /\ ret # Pending
    /\ IsNotFoundMessage(ret)

----------------------------------------------------------------------------
\* create_reply_ref_data: the reply reference of a reply to the post of a
\* commit.  A post is its author's did with the commit (info.collection,
\* info.rkey, cid, record); record.reply is None or Some(ReplyRefData).

POST_COLLECTION == "app.bsky.feed.post"

\* format!("at://{}/{}/{}", did, collection, rkey), kept as its parts.
FormatUri(did, collection, rkey) == <<"at://", did, "/", collection, "/", rkey>>

\* A resolver that roots the reply at the triggering post's parent.
create_reply_ref_data_RootFromParent(record, commit, did) ==
    LET uri == FormatUri(did, commit.info.collection, commit.info.rkey)
        root_data ==
            IF record.reply # None
            THEN [cid |-> record.reply.val.parent.cid, uri |-> record.reply.val.parent.uri]
            ELSE [cid |-> commit.cid, uri |-> uri]
    IN  [root |-> root_data, parent |-> [cid |-> commit.cid, uri |-> uri]]

\* A resolver that always roots the reply at the triggering post itself.
create_reply_ref_data_RootIsSelf(record, commit, did) ==
    LET uri == FormatUri(did, commit.info.collection, commit.info.rkey)
    IN  [root |-> [cid |-> commit.cid, uri |-> uri],
         parent |-> [cid |-> commit.cid, uri |-> uri]]

create_reply_ref_data(record, commit, did) ==
    LET uri == FormatUri(did, commit.info.collection, commit.info.rkey)
        root_data ==
            IF record.reply # None
            THEN [cid |-> record.reply.val.root.cid, uri |-> record.reply.val.root.uri]
            ELSE [cid |-> commit.cid, uri |-> uri]
    IN  [root |-> root_data, parent |-> [cid |-> commit.cid, uri |-> uri]]

\* Inputs of the resolver: posts of the authors DIDs with record keys
\* 1..MaxRkey and content identifiers CIDs; a first post is no reply, or a
\* reply into an earlier thread (ForeignReplies).  Record keys are unique in
\* an author's collection, so no two posts share author and record key, and
\* no post's reply reference points at the post itself.
MaxRkey == 2

MaxDepth == 3

WATCH_DID == "did:plc:pisearch"

OTHER_DID == "did:plc:alice"

DIDs == {WATCH_DID, OTHER_DID}

CIDs == {"bafyA", "bafyB"}

StrongRef(did, rkey, cid) == [cid |-> cid, uri |-> FormatUri(did, POST_COLLECTION, rkey)]

ForeignReplies ==
    {[root |-> StrongRef("did:plc:carol", 0, "bafyR"),
      parent |-> StrongRef("did:plc:carol", 0, "bafyR")],
     [root |-> StrongRef("did:plc:carol", 0, "bafyR"),
      parent |-> StrongRef("did:plc:dave", 0, "bafyP")]}

PostText == <<"h", "i">>

MkPost(did, rkey, cid, reply) ==
    [did |-> did,
     commit |-> [info |-> [collection |-> POST_COLLECTION, rkey |-> rkey],
                 cid |-> cid,
                 record |-> [type |-> "post", text |-> PostText,
                             facets |-> None, reply |-> reply]]]

FirstPosts ==
    {MkPost(d, k, c, rp) : d \in DIDs, k \in 1..MaxRkey, c \in CIDs,
                           rp \in {None} \cup {Some(f) : f \in ForeignReplies}}

ThreadInit ==
    /\ PipeOff
    /\ arg = Pending
    /\ ret = Pending
    /\ thread \in {<<p>> : p \in FirstPosts}

\* A reply to the newest post of the thread is created with the reference
\* the resolver computes from that post, and becomes the newest post.
ReplyToLast(did, rkey, cid) ==
    /\ Len(thread) < MaxDepth
    /\ \A i \in 1..Len(thread) :
           ~(thread[i].did = did /\ thread[i].commit.info.rkey = rkey)
    /\ LET p == Last(thread)
           reply_ref_data == create_reply_ref_data(p.commit.record, p.commit, p.did)
       IN  thread' = Append(thread, MkPost(did, rkey, cid, Some(reply_ref_data)))
    /\ UNCHANGED <<pipeVars, arg, ret>>

ThreadNext == \E did \in DIDs, rkey \in 1..MaxRkey, cid \in CIDs : ReplyToLast(did, rkey, cid)

ThreadSpec == ThreadInit /\ [][ThreadNext]_vars

\* The reference to a post, as the specification words it: the URI of
\* author, collection and record key, with the content identifier.
RefTo(p) ==
    [cid |-> p.commit.cid,
     uri |-> <<"at://", p.did, "/", p.commit.info.collection, "/", p.commit.info.rkey>>]

ReplyOf(p) == p.commit.record.reply

\* C2: the reply reference computed for a triggering post P has P itself as
\* parent; its root is the root of P's reply reference when P is a reply
\* and P itself otherwise (then root = parent); the parent is never P's own
\* parent.
C2_ParentIsTriggerRootInherited ==
    \A k \in 2..Len(thread) :
        LET P == thread[k - 1]
            rr == ReplyOf(thread[k]).val
        IN  /\ rr.parent = RefTo(P)
            /\ ReplyOf(P) # None =>
                /\ rr.root = ReplyOf(P).val.root
                /\ rr.parent # ReplyOf(P).val.parent
            /\ ReplyOf(P) = None =>
                /\ rr.root = RefTo(P)
                /\ rr.root = rr.parent

\* P is a reply whose root and parent differ; the reply to P keeps P's root
\* and has P as parent.
C2_Witness ==
    /\ Len(thread) = 2
    /\ ReplyOf(thread[1]) # None
    /\ ReplyOf(thread[1]).val.root # ReplyOf(thread[1]).val.parent
    /\ ReplyOf(thread[2]).val.root = ReplyOf(thread[1]).val.root
    /\ ReplyOf(thread[2]).val.parent = RefTo(thread[1])

\* C3: in a chain that starts at a post without reply reference and whose
\* further posts carry the reference the resolver computed from the post
\* before, every reply has the first post as root, and the parents of any
\* two replies differ.
C3_OneRootPerChain ==
    ReplyOf(thread[1]) = None =>
        /\ \A k \in 2..Len(thread) : ReplyOf(thread[k]).val.root = RefTo(thread[1])
        /\ \A j, k \in 2..Len(thread) :
               j # k => ReplyOf(thread[j]).val.parent # ReplyOf(thread[k]).val.parent

\* A chain of MaxDepth posts: the last reply is rooted at the first post and
\* its parent is the post before it, not the first.
C3_Witness ==
    /\ Len(thread) >= 3
    /\ ReplyOf(thread[1]) = None
    /\ ReplyOf(thread[3]).val.root = RefTo(thread[1])
    /\ ReplyOf(thread[3]).val.parent = RefTo(thread[2])
    /\ ReplyOf(thread[3]).val.parent # ReplyOf(thread[3]).val.root

----------------------------------------------------------------------------
\* The body of the filtered_jetstream generator for one received event.  An
\* event is a commit (create, update, delete) or an identity or account
\* event; a record is a post or a record of another known type; a facet
\* feature is a mention, a link or a tag.

Mention(did) == [type |-> "mention", did |-> did]

Link == [type |-> "link", did |-> "none"]

\* A feature test that accepts a mention of any identity.
IsMentionOf_AnyTarget(feature, target_did) == feature.type = "mention"

\* matches!(feature, Union::Refs(Mention(m)) if m.data.did == target_did)
IsMentionOf(feature, target_did) ==
    feature.type = "mention" /\ feature.did = target_did

\* is_some_and over record.facets, Iterator::any over the facets and over
\* each facet's features.
matches(record, target_did) ==
    /\ record.facets # None
    /\ \E f \in 1..Len(record.facets.val) :
           LET facet == record.facets.val[f]
           IN  \E g \in 1..Len(facet.features) :
                   IsMentionOf(facet.features[g], target_did)

\* What the generator yields for the event: Some((event_did, commit)), or
\* None when it goes on to the next event.
FilterItem(event, target_did) ==
    IF event.kind = "create"
    THEN LET event_did == event.did
             commit == event.commit
         IN  IF commit.record.type = "post"
             THEN IF matches(commit.record, target_did)
                  THEN Some(<<event_did, commit>>)
                  ELSE None
             ELSE None
    ELSE None

\* Inputs of the filter: posts with no facets or at most MaxFacets facets of
\* at most MaxFeatures features each, and events of the other kinds.
MaxFacets == 2

MaxFeatures == 2

Features == {Mention(WATCH_DID), Mention(OTHER_DID), Link}

Facets == [features : SeqsUpTo(Features, MaxFeatures)]

FacetLists == {None} \cup {Some(fs) : fs \in SeqsUpTo(Facets, MaxFacets)}

MkCommit(rkey, cid, record) ==
    [info |-> [collection |-> POST_COLLECTION, rkey |-> rkey], cid |-> cid, record |-> record]

MkRecord(text, facets, reply) ==
    [type |-> "post", text |-> text, facets |-> facets, reply |-> reply]

LikeRecord == [type |-> "like"]

MentionFacets(did) == Some(<<[features |-> <<Mention(did)>>]>>)

FilterEvents ==
    {[kind |-> "create", did |-> OTHER_DID,
      commit |-> MkCommit(1, "bafyA", MkRecord(PostText, f, None))] : f \in FacetLists}
    \cup {[kind |-> "create", did |-> OTHER_DID, commit |-> MkCommit(1, "bafyA", LikeRecord)]}
    \cup {[kind |-> k, did |-> OTHER_DID,
           commit |-> MkCommit(1, "bafyA", MkRecord(PostText, MentionFacets(d), None))] :
             k \in {"update"}, d \in DIDs}
    \cup {[kind |-> k, did |-> OTHER_DID, commit |-> None] :
             k \in {"delete", "identity", "account"}}

FilterInit ==
    /\ PipeOff
    /\ arg \in [event : FilterEvents, target_did : DIDs]
    /\ ret = Pending
    /\ thread = <<>>

FilterEvent ==
    /\ ret = Pending
    /\ ret' = FilterItem(arg.event, arg.target_did)
    /\ UNCHANGED <<pipeVars, arg, thread>>

FilterNext == FilterEvent

FilterSpec == FilterInit /\ [][FilterNext]_vars

\* The forwarding condition as the specification words it.
IsCreateOfPost(e) == e.kind = "create" /\ e.commit.record.type = "post"

MentionTargets(e) ==
    IF e.commit.record.facets = None THEN {}
    ELSE LET fs == e.commit.record.facets.val
         IN  {fs[i].features[j].did :
                 <<i, j>> \in {x \in (1..Len(fs)) \X (1..MaxFeatures + 1) :
                                  /\ x[2] <= Len(fs[x[1]].features)
                                  /\ fs[x[1]].features[x[2]].type = "mention"}}

\* C4: the filter forwards an event exactly when it is a create commit of a
\* post with a mention feature, in some facet, of exactly the watched
\* identity; what it forwards is the author's did with the commit; for every
\* other event it yields nothing, and it yields or drops every event.
C4_ForwardIffMentioned ==
    ret # Pending =>
        /\ ret # None <=> (IsCreateOfPost(arg.event)
                           /\ arg.target_did \in MentionTargets(arg.event))
        /\ ret # None => ret = Some(<<arg.event.did, arg.event.commit>>)
        /\ ret \in {None, Some(<<arg.event.did, arg.event.commit>>)}

\* A post whose first facet mentions another identity and whose second
\* facet holds a link and then the mention of the watched identity.
C4_Witness ==
    /\ arg.event.kind = "create"
    /\ arg.event.commit.record.type = "post"
    /\ arg.event.commit.record.facets =
           Some(<<[features |-> <<Mention(OTHER_DID)>>],
                  [features |-> <<Link, Mention(WATCH_DID)>>]>>)
    /\ arg.target_did = WATCH_DID
    /\ ret = Some(<<arg.event.did, arg.event.commit>>)

----------------------------------------------------------------------------
\* The stream command: main reads the credentials and runs streaming_mode,
\* which builds the agent, logs in, parses the watched did, connects the
\* filtered jetstream and then loops over the items the generator yields.
\* The jetstream receiver buffers events in chan while the loop is busy.

MaxEvents == 3

QueryText == <<"h", "e", "l", "l", "o", " ">> \o TRIGGER \o <<" ", "4", "2", " ", "t", "h", "e", "r", "e">>

NoQueryText == <<"h", "e", "y", " ">> \o TRIGGER \o <<" ", "-">>

ForeignReply ==
    [root |-> StrongRef("did:plc:carol", 0, "bafyR"),
     parent |-> StrongRef("did:plc:dave", 0, "bafyP")]

\* What the source may deliver: mentions of the watched identity with and
\* without a query, as a first post and as a reply; a post mentioning
\* someone else; an identity event.
StreamEvents ==
    {[kind |-> "create", did |-> OTHER_DID,
      commit |-> MkCommit(1, "bafyA", MkRecord(QueryText, MentionFacets(WATCH_DID), None))],
     [kind |-> "create", did |-> OTHER_DID,
      commit |-> MkCommit(2, "bafyB", MkRecord(NoQueryText, MentionFacets(WATCH_DID), None))],
     [kind |-> "create", did |-> OTHER_DID,
      commit |-> MkCommit(3, "bafyA",
                          MkRecord(QueryText, MentionFacets(WATCH_DID), Some(ForeignReply)))],
     [kind |-> "create", did |-> OTHER_DID,
      commit |-> MkCommit(4, "bafyB", MkRecord(QueryText, MentionFacets(OTHER_DID), None))],
     [kind |-> "identity", did |-> OTHER_DID, commit |-> None]}

Println(fmt, a) == [fmt |-> fmt, arg |-> a]

Connected == pc \in {"next", "body", "await"}

Init ==
    /\ pc = "read_credentials"
    /\ dry_run \in BOOLEAN
    /\ chan = <<>>
    /\ closed = FALSE
    /\ nsent = 0
    /\ cur = NoItem
    /\ tasks = <<>>
    /\ started = <<>>
    /\ out = <<>>
    /\ searches = <<>>
    /\ calls = <<>>
    /\ arg = Pending
    /\ ret = Pending
    /\ thread = <<>>
    /\ command = "Stream"
    /\ clock = 0
    /\ locals = NoLocals

\* One fallible startup step: on Ok the run goes on at the next step, on Err
\* the ? operator returns the error from streaming_mode and from main.
StartupStep(at, then) ==
    /\ pc = at
    /\ \E ok \in BOOLEAN : pc' = IF ok THEN then ELSE "failed"
    /\ UNCHANGED <<dry_run, chan, closed, nsent, cur, tasks, started, out,
                   searches, calls, arg, ret, thread,
                   command, clock, locals>>

ReadCredentials == StartupStep("read_credentials", "build")

BuildAgent == StartupStep("build", "login")

Login == StartupStep("login", "did")

ParseDid == StartupStep("did", "connect")

\* A connection step that logs in again when the connection fails.
Connect_Retry ==
    /\ pc = "connect"
    /\ \E ok \in BOOLEAN : pc' = IF ok THEN "next" ELSE "login"
    /\ UNCHANGED <<dry_run, chan, closed, nsent, cur, tasks, started, out,
                   searches, calls, arg, ret, thread,
                   command, clock, locals>>

Connect == StartupStep("connect", "next")

\* The jetstream connection delivers an event into the receiver's buffer.
SourceDeliver(e) ==
    /\ Connected
    /\ ~closed
    /\ nsent < MaxEvents
    /\ nsent' = nsent + 1
    /\ chan' = Append(chan, [id |-> nsent + 1, ev |-> e])
    /\ UNCHANGED <<pc, dry_run, closed, cur, tasks, started, out, searches,
                   calls, arg, ret, thread,
                   command, clock, locals>>

\* The jetstream connection closes; what is buffered stays readable.
SourceClose ==
    /\ Connected
    /\ ~closed
    /\ closed' = TRUE
    /\ UNCHANGED <<pc, dry_run, chan, nsent, cur, tasks, started, out,
                   searches, calls, arg, ret, thread,
                   command, clock, locals>>

\* filtered_stream.next(): the generator takes the oldest buffered event and
\* yields it to the loop or goes on to the next.
FilteredStreamNext ==
    /\ pc = "next"
    /\ chan # <<>>
    /\ LET item == Head(chan)
           yielded == FilterItem(item.ev, WATCH_DID)
       IN  /\ chan' = Tail(chan)
           /\ IF yielded # None
              THEN /\ cur' = [id |-> item.id, did |-> yielded.val[1],
                              commit |-> yielded.val[2]]
                   /\ pc' = "body"
              ELSE UNCHANGED <<cur, pc>>
    /\ UNCHANGED <<dry_run, closed, nsent, tasks, started, out, searches,
                   calls, arg, ret, thread,
                   command, clock, locals>>

\* A loop that connects again when the receiver stream ends.
StreamEnds_Reconnect ==
    /\ pc = "next"
    /\ chan = <<>>
    /\ closed
    /\ out' = Append(out, Println("Exiting streaming mode!", None))
    /\ pc' = "connect"
    /\ UNCHANGED <<dry_run, chan, closed, nsent, cur, tasks, started,
                   searches, calls, arg, ret, thread,
                   command, clock, locals>>

\* A loop that ends as soon as the source has closed, whatever is buffered.
StreamEnds_DropBuffered ==
    /\ pc = "next"
    /\ closed
    /\ out' = Append(out, Println("Exiting streaming mode!", None))
    /\ pc' = "done"
    /\ UNCHANGED <<dry_run, chan, closed, nsent, cur, tasks, started,
                   searches, calls, arg, ret, thread,
                   command, clock, locals>>

\* The receiver stream ended: the generator ends, next() returns None, the
\* loop exits and streaming_mode returns Ok.
StreamEnds ==
    /\ pc = "next"
    /\ chan = <<>>
    /\ closed
    /\ out' = Append(out, Println("Exiting streaming mode!", None))
    /\ pc' = "done"
    /\ UNCHANGED <<dry_run, chan, closed, nsent, cur, tasks, started,
                   searches, calls, arg, ret, thread,
                   command, clock, locals>>

\* A loop body that spawns the handler and does not await it.
LoopBody_Spawn ==
    /\ pc = "body"
    /\ started' = Append(started, cur)
    /\ tasks' = Append(tasks, cur.id)
    /\ pc' = "next"
    /\ UNCHANGED <<dry_run, chan, closed, nsent, cur, out, searches, calls,
                   arg, ret, thread,
                   command, clock, locals>>

\* The loop body: without dry-run it calls handle_message and awaits it; in
\* dry-run it prints the sender and the incoming record.
LoopBody ==
    /\ pc = "body"
    /\ started' = Append(started, cur)
    /\ IF ~dry_run
       THEN /\ tasks' = Append(tasks, cur.id)
            /\ pc' = "await"
            /\ UNCHANGED <<cur, out>>
       ELSE /\ out' = out \o <<Println("Dry run mode: Would handle message from {}", cur.did),
                               Println("Message to post: {:#?}", cur.commit.record)>>
            /\ pc' = "next"
            /\ cur' = NoItem
            /\ UNCHANGED tasks
    /\ UNCHANGED <<dry_run, chan, closed, nsent, searches, calls, arg, ret, thread,
                   command, clock, locals>>

\* A handler whose failure to find a query ends the loop with an error.
HandleMessage_AbortOnNoQuery ==
    /\ pc = "await"
    /\ out' = Append(out, Println("Message: {}", cur.commit.record.text))
    /\ tasks' = <<>>
    /\ cur' = NoItem
    /\ pc' = IF extract_number(cur.commit.record.text) = None THEN "failed" ELSE "next"
    /\ UNCHANGED <<dry_run, chan, closed, nsent, started, searches, calls,
                   arg, ret, thread,
                   command, clock, locals>>

\* handle_message: prints the text of the post and returns.
HandleMessage ==
    /\ pc = "await"
    /\ out' = Append(out, Println("Message: {}", cur.commit.record.text))
    /\ tasks' = <<>>
    /\ cur' = NoItem
    /\ pc' = "next"
    /\ UNCHANGED <<dry_run, chan, closed, nsent, started, searches, calls,
                   arg, ret, thread,
                   command, clock, locals>>

Next ==
    \/ ReadCredentials
    \/ BuildAgent
    \/ Login
    \/ ParseDid
    \/ Connect
    \/ \E e \in StreamEvents : SourceDeliver(e)
    \/ SourceClose
    \/ FilteredStreamNext
    \/ StreamEnds
    \/ LoopBody
    \/ HandleMessage

Spec == Init /\ [][Next]_vars

\* The stream command under the runtime's scheduling: the task that runs
\* streaming_mode is polled whenever it can take a step of the loop.
FairSpec ==
    Spec /\ WF_vars(FilteredStreamNext \/ LoopBody \/ HandleMessage \/ StreamEnds)

\* The query in the text of an item's record, when it is a post.
QueryOf(item) ==
    IF item.commit.record.type = "post"
    THEN extract_number(item.commit.record.text)
    ELSE None

\* The items whose handling has started and ended.
Handled == {started[i] : i \in {j \in 1..Len(started) : \A t \in 1..Len(tasks) : tasks[t] # started[j].id}}

SearchesOf(id) == {i \in 1..Len(searches) : searches[i].id = id}

CallsOf(id) == {i \in 1..Len(calls) : calls[i].id = id}

SearchFailedFor(id) ==
    \E i \in SearchesOf(id) :
        \/ searches[i].state = "err"
        \/ searches[i].state = "ok" /\ searches[i].resp.status = "error"

\* The reply the specification expects for an item: rooted at the item's
\* thread root, or at the item itself, and naming the query and the first
\* match position.
IsReplyTo(record_data, item) ==
    /\ record_data.reply # None
    /\ record_data.reply.val.root =
           IF item.commit.record.reply # None
           THEN item.commit.record.reply.val.root
           ELSE RefTo(item)
    /\ record_data.text.number = QueryOf(item).val
    /\ \A i \in SearchesOf(item.id) :
           searches[i].resp.r # <<>> /\ searches[i].resp.r[1].status # "notfound"
               => record_data.text.p = searches[i].resp.r[1].p

\* C1 as stated: without dry-run, for every handled event that mentions the
\* watched identity and whose text yields a query, exactly one create-record
\* call was issued, a reply rooted at the event (or at its thread root) that
\* names the query and the first match position, unless the event's search
\* failed.
C1_OneReplyPerMention ==
    ~dry_run =>
        \A item \in Handled :
            QueryOf(item) # None =>
                \/ SearchFailedFor(item.id)
                \/ /\ Cardinality(CallsOf(item.id)) = 1
                   /\ \A i \in CallsOf(item.id) : IsReplyTo(calls[i].record_data, item)

\* C8: once streaming, no step leaves the loop except the end of the event
\* source: handling an event, with or without a query in its text, returns
\* to receiving the next one, and the loop ends only when the source has
\* closed and its buffer is empty.
C8_OnlySourceCloseEndsLoop ==
    [][Connected =>
          \/ Connected'
          \/ pc = "next" /\ chan = <<>> /\ closed /\ pc' = "done"]_vars

\* An event without a query was handled, and after it a second event; the
\* loop is receiving again and the source is still open.
C8_Witness ==
    /\ pc = "next"
    /\ ~dry_run
    /\ ~closed
    /\ Len(started) = 2
    /\ tasks = <<>>
    /\ QueryOf(started[1]) = None
    /\ Len(out) = 2

InFlight(log) == {i \in 1..Len(log) : log[i].state = "pending"}

\* C10: at most one item is being handled; items are handled in the order
\* the source delivered them; an item's handling starts only when every
\* earlier one has ended; at most one search call and at most one
\* create-record call is in flight.
C10_SingleConsumer ==
    /\ Len(tasks) <= 1
    /\ tasks # <<>> => tasks[1] = started[Len(started)].id
    /\ \A i, j \in 1..Len(started) : i < j => started[i].id < started[j].id
    /\ Cardinality(InFlight(searches)) <= 1
    /\ Cardinality(InFlight(calls)) <= 1

\* The second matching event is being handled after the first has ended,
\* while a third event waits in the receiver's buffer.
C10_Witness ==
    /\ pc = "await"
    /\ Len(started) = 2
    /\ tasks = <<started[2].id>>
    /\ Len(out) = 1
    /\ chan # <<>>

----------------------------------------------------------------------------
\* The per-event reply cycle: handle_message_real with do_pisearch, applied
\* to one (did, commit) after the other.  search_pi and create_record are
\* awaited: each is a call that is issued and later returns.

MaxCalls == 2

Ok(v) == [tag |-> "Ok", val |-> v]

Err(e) == [tag |-> "Err", err |-> e]

\* What search_pi may return: a request or parse error, or a parsed result.
SearchResponses ==
    {Err("reqwest or serde_json error"),
     Ok([status |-> "error", r |-> <<>>]),
     Ok([status |-> "ok", r |-> <<>>]),
     Ok([status |-> "ok", r |-> <<[status |-> "notfound", p |-> 0]>>]),
     Ok([status |-> "ok", r |-> <<[status |-> "found", p |-> 2],
                                  [status |-> "found", p |-> 1]>>])}

\* What the handler may be given: posts with and without a query, a reply,
\* and a record that is no post.
HandlerItems ==
    {[did |-> OTHER_DID,
      commit |-> MkCommit(1, "bafyA", MkRecord(QueryText, MentionFacets(WATCH_DID), None))],
     [did |-> OTHER_DID,
      commit |-> MkCommit(2, "bafyB", MkRecord(NoQueryText, MentionFacets(WATCH_DID), None))],
     [did |-> OTHER_DID,
      commit |-> MkCommit(3, "bafyA",
                          MkRecord(QueryText, MentionFacets(WATCH_DID), Some(ForeignReply)))],
     [did |-> OTHER_DID, commit |-> MkCommit(4, "bafyB", LikeRecord)]}

\* do_pisearch after the search without the test of the result's status.
do_pisearch_result_NoStatusTest(resp, number) ==
    IF resp.tag = "Err" THEN Err("Error searching: {e}")
    ELSE Ok(create_response(resp.val, number, THANKS))

\* do_pisearch from the return of search_pi on: the error of a failed
\* search, the error of a result with status "error", or the response text.
do_pisearch_result(resp, number) ==
    IF resp.tag = "Err" THEN Err("Error searching: {e}")
    ELSE IF resp.val.status = "error" THEN Err("Error searching pi")
    ELSE Ok(create_response(resp.val, number, THANKS))

\* The record handle_message_real creates.
ReplyRecordData(reply_ref_data, reply_text) ==
    [facets |-> None, reply |-> Some(reply_ref_data), tags |-> <<"#pi">>,
     text |-> reply_text]

HandlerInit ==
    /\ pc = "h_idle"
    /\ dry_run = FALSE
    /\ chan = <<>>
    /\ closed = FALSE
    /\ nsent = 0
    /\ cur = NoItem
    /\ tasks = <<>>
    /\ started = <<>>
    /\ out = <<>>
    /\ searches = <<>>
    /\ calls = <<>>
    /\ arg = Pending
    /\ ret = Pending
    /\ thread = <<>>
    /\ command = "none"
    /\ clock = 0
    /\ locals = NoLocals

\* handle_message_real is called: a record that is no post returns at once;
\* a text without a number returns with the error printed; otherwise
\* search_pi is issued for the number.
HandleMessageRealBegin(it) ==
    /\ pc = "h_idle"
    /\ nsent < MaxCalls
    /\ nsent' = nsent + 1
    /\ LET item == [id |-> nsent + 1, did |-> it.did, commit |-> it.commit]
       IN  /\ started' = Append(started, item)
           /\ IF item.commit.record.type # "post"
              THEN UNCHANGED <<pc, cur, tasks, out, searches>>
              ELSE LET number == extract_number(item.commit.record.text)
                   IN  IF number = None
                       THEN /\ out' = Append(out, Println("Error searching pi: {}",
                                                          "No number found"))
                            /\ UNCHANGED <<pc, cur, tasks, searches>>
                       ELSE /\ searches' = Append(searches,
                                   [id |-> item.id, number |-> number.val,
                                    state |-> "pending", resp |-> None])
                            /\ cur' = item
                            /\ tasks' = <<item.id>>
                            /\ pc' = "h_search"
                            /\ UNCHANGED out
    /\ UNCHANGED <<dry_run, chan, closed, calls, arg, ret, thread,
                   command, clock, locals>>

\* search_pi returns: on an error do_pisearch prints it and fails, on status
\* "error" it fails, and the handler prints the failure and returns;
\* otherwise the handler builds the reply and issues create_record.
SearchPiReturns(resp) ==
    /\ pc = "h_search"
    /\ LET n == Len(searches)
           number == searches[n].number
           result == do_pisearch_result(resp, number)
       IN  /\ searches' = [searches EXCEPT ![n] =
                   [@ EXCEPT !.state = IF resp.tag = "Ok" THEN "ok" ELSE "err",
                             !.resp = IF resp.tag = "Ok" THEN resp.val ELSE None]]
           /\ IF result.tag = "Err"
              THEN /\ out' = out
                        \o (IF resp.tag = "Err"
                            THEN <<Println("Error searching: {e}", resp.err)>>
                            ELSE <<>>)
                        \o <<Println("Error searching pi: {}", result.err)>>
                   /\ pc' = "h_idle"
                   /\ cur' = NoItem
                   /\ tasks' = <<>>
                   /\ UNCHANGED calls
              ELSE LET reply_ref_data ==
                           create_reply_ref_data(cur.commit.record, cur.commit, cur.did)
                   IN  /\ calls' = Append(calls,
                              [id |-> cur.id,
                               record_data |-> ReplyRecordData(reply_ref_data, result.val),
                               state |-> "pending"])
                       /\ pc' = "h_post"
                       /\ UNCHANGED <<out, cur, tasks>>
    /\ UNCHANGED <<dry_run, chan, closed, nsent, started, arg, ret, thread,
                   command, clock, locals>>

\* create_record returns: an error is printed; either way the handler
\* returns.
CreateRecordReturns(ok) ==
    /\ pc = "h_post"
    /\ calls' = [calls EXCEPT ![Len(calls)] =
                    [@ EXCEPT !.state = IF ok THEN "ok" ELSE "err"]]
    /\ out' = IF ok THEN out ELSE Append(out, Println("Error creating record: {}", "e"))
    /\ pc' = "h_idle"
    /\ cur' = NoItem
    /\ tasks' = <<>>
    /\ UNCHANGED <<dry_run, chan, closed, nsent, started, searches, arg, ret, thread,
                   command, clock, locals>>

HandlerNext ==
    \/ \E it \in HandlerItems : HandleMessageRealBegin(it)
    \/ \E resp \in SearchResponses : SearchPiReturns(resp)
    \/ \E ok \in BOOLEAN : CreateRecordReturns(ok)

HandlerSpec == HandlerInit /\ [][HandlerNext]_vars

StartedIds == {started[i].id : i \in 1..Len(started)}

\* C9: a create-record call exists only for an item whose text yielded a
\* query and whose search has returned a result without status "error";
\* an item without a query has no search and no call; an item whose search
\* failed or is still pending has no call; no item has more than one search
\* or more than one call.
C9_PostOnlyAfterQueryAndSearch ==
    /\ \A c \in 1..Len(calls) :
           \E k \in 1..Len(started) :
               /\ started[k].id = calls[c].id
               /\ QueryOf(started[k]) # None
               /\ \E i \in SearchesOf(calls[c].id) :
                      searches[i].state = "ok" /\ searches[i].resp.status # "error"
    /\ \A k \in 1..Len(started) :
           QueryOf(started[k]) = None =>
               SearchesOf(started[k].id) = {} /\ CallsOf(started[k].id) = {}
    /\ \A id \in StartedIds :
           /\ SearchFailedFor(id) => CallsOf(id) = {}
           /\ (\E i \in SearchesOf(id) : searches[i].state = "pending") => CallsOf(id) = {}
           /\ Cardinality(SearchesOf(id)) <= 1
           /\ Cardinality(CallsOf(id)) <= 1

\* The first item's search returned status "error" and no reply was made for
\* it; the second item's search succeeded and its reply has been issued.
C9_Witness ==
    /\ Len(started) = 2
    /\ Len(searches) = 2
    /\ searches[1].state = "ok"
    /\ searches[1].resp.status = "error"
    /\ CallsOf(started[1].id) = {}
    /\ Cardinality(CallsOf(started[2].id)) = 1
    /\ pc = "h_post"

----------------------------------------------------------------------------
\* The random and today commands of main: pick the number, search it, build
\* the agent and log in, compose the post and hand it to post_to_bsky.  The
\* clock may pass midnight UTC while the run waits.

MaxTicks == 1

DigitChars == <<"0", "1", "2", "3", "4", "5", "6", "7", "8", "9">>

\* A number below 100 in two digits, as %m and %d print it.
TwoDigits(n) == <<DigitChars[(n \div 10) + 1], DigitChars[(n % 10) + 1]>>

\* The calendar date of the UTC day `now`: day 0 is 2025-12-31, day n is the
\* n-th of January 2026.
DateParts(now) ==
    IF now = 0
    THEN [Y |-> <<"2", "0", "2", "5">>, m |-> TwoDigits(12), d |-> TwoDigits(31)]
    ELSE [Y |-> <<"2", "0", "2", "6">>, m |-> TwoDigits(1), d |-> TwoDigits(now)]

\* chrono::Utc::now().format("%Y%m%d")
get_today_date(now) ==
    DateParts(now).Y \o DateParts(now).m \o DateParts(now).d

\* chrono::Utc::now().format("%Y-%m-%d")
get_today_date_with_hyphens(now) ==
    DateParts(now).Y \o <<"-">> \o DateParts(now).m \o <<"-">> \o DateParts(now).d

\* fastrand::u32(0..100_000_000).to_string()
RandomNumbers == Numbers

Tag == [type |-> "tag", did |-> "none"]

\* RichText::new_with_detect_facets: the found text holds the tag #pi and a
\* link, the not-found texts hold neither.
DetectFacets(text) ==
    IF text.tmpl = FOUND
    THEN Some(<<[features |-> <<Tag>>], [features |-> <<Link>>]>>)
    ELSE None

\* The record post_to_bsky builds.
PostRecordData(text) ==
    [facets |-> DetectFacets(text), reply |-> None, tags |-> <<"#pi">>, text |-> text]

DRY_RUN_POST == "Dry run mode: The post content would be:\n{:?}"

MainRunning ==
    pc \in {"m_read_credentials", "m_number", "m_search", "m_build", "m_login",
            "m_compose", "m_post", "m_create"}

MainInit ==
    /\ pc = "m_read_credentials"
    /\ dry_run \in BOOLEAN
    /\ command \in {"Random", "Today"}
    /\ clock = 0
    /\ locals = NoLocals
    /\ chan = <<>>
    /\ closed = FALSE
    /\ nsent = 0
    /\ cur = NoItem
    /\ tasks = <<>>
    /\ started = <<>>
    /\ out = <<>>
    /\ searches = <<>>
    /\ calls = <<>>
    /\ arg = Pending
    /\ ret = Pending
    /\ thread = <<>>

\* Midnight UTC passes.
ClockTick ==
    /\ MainRunning
    /\ clock < MaxTicks
    /\ clock' = clock + 1
    /\ UNCHANGED <<pc, dry_run, chan, closed, nsent, cur, tasks, started, out,
                   searches, calls, arg, ret, thread, command, locals>>

\* One fallible step of main: on Err the ? operator ends the run with the
\* error.
MainStep(at, then) ==
    /\ pc = at
    /\ \E ok \in BOOLEAN : pc' = IF ok THEN then ELSE "m_failed"
    /\ UNCHANGED <<dry_run, chan, closed, nsent, cur, tasks, started, out,
                   searches, calls, arg, ret, thread, command, clock, locals>>

MainReadCredentials == MainStep("m_read_credentials", "m_number")

\* let number = ...; search_pi(&number) is issued.
MainSearchPi ==
    /\ pc = "m_number"
    /\ \E n \in (IF command = "Today" THEN {get_today_date(clock)} ELSE RandomNumbers) :
           /\ locals' = [locals EXCEPT !.number = Some(n)]
           /\ searches' = Append(searches, [id |-> 0, number |-> n,
                                            state |-> "pending", resp |-> None])
    /\ pc' = "m_search"
    /\ UNCHANGED <<dry_run, chan, closed, nsent, cur, tasks, started, out,
                   calls, arg, ret, thread, command, clock>>

\* A main that goes on with an empty result when the search fails.
MainSearchPiReturns_ContinueOnError(resp) ==
    /\ pc = "m_search"
    /\ searches' = [searches EXCEPT ![1] =
           [@ EXCEPT !.state = IF resp.tag = "Ok" THEN "ok" ELSE "err",
                     !.resp = IF resp.tag = "Ok" THEN resp.val ELSE None]]
    /\ locals' = [locals EXCEPT !.search_result =
                     IF resp.tag = "Ok" THEN Some(resp.val)
                     ELSE Some([status |-> "error", r |-> <<>>])]
    /\ pc' = "m_build"
    /\ UNCHANGED <<dry_run, chan, closed, nsent, cur, tasks, started, out,
                   calls, arg, ret, thread, command, clock>>

\* search_pi(&number).await?: an error ends the run; any parsed result,
\* whatever its status, is kept.
MainSearchPiReturns(resp) ==
    /\ pc = "m_search"
    /\ searches' = [searches EXCEPT ![1] =
           [@ EXCEPT !.state = IF resp.tag = "Ok" THEN "ok" ELSE "err",
                     !.resp = IF resp.tag = "Ok" THEN resp.val ELSE None]]
    /\ IF resp.tag = "Err"
       THEN /\ pc' = "m_failed"
            /\ UNCHANGED locals
       ELSE /\ pc' = "m_build"
            /\ locals' = [locals EXCEPT !.search_result = Some(resp.val)]
    /\ UNCHANGED <<dry_run, chan, closed, nsent, cur, tasks, started, out,
                   calls, arg, ret, thread, command, clock>>

MainBuildAgent == MainStep("m_build", "m_login")

MainLogin == MainStep("m_login", "m_compose")

\* let post_content = create_response(..): the today command names the date
\* read from the clock now, the random command the number searched.
MainCompose ==
    /\ pc = "m_compose"
    /\ locals' = [locals EXCEPT !.post_content =
           Some(create_response(locals.search_result.val,
                                IF command = "Today"
                                THEN get_today_date_with_hyphens(clock)
                                ELSE locals.number.val,
                                ""))]
    /\ pc' = "m_post"
    /\ UNCHANGED <<dry_run, chan, closed, nsent, cur, tasks, started, out,
                   searches, calls, arg, ret, thread, command, clock>>

\* A post_to_bsky that creates the record in dry-run mode too.
PostToBsky_IgnoreDryRun ==
    /\ pc = "m_post"
    /\ \E ok \in BOOLEAN :
           IF ~ok
           THEN pc' = "m_failed" /\ UNCHANGED <<out, calls>>
           ELSE /\ calls' = Append(calls,
                       [id |-> 0, record_data |-> PostRecordData(locals.post_content.val),
                        state |-> "pending"])
                /\ pc' = "m_create"
                /\ UNCHANGED out
    /\ UNCHANGED <<dry_run, chan, closed, nsent, cur, tasks, started,
                   searches, arg, ret, thread, command, clock, locals>>

\* post_to_bsky up to the create_record call: facet detection may fail; in
\* dry-run the record is printed and the run ends, otherwise create_record
\* is issued.
PostToBsky ==
    /\ pc = "m_post"
    /\ \E ok \in BOOLEAN :
           IF ~ok
           THEN pc' = "m_failed" /\ UNCHANGED <<out, calls>>
           ELSE LET record_data == PostRecordData(locals.post_content.val)
                IN  IF dry_run
                    THEN /\ out' = Append(out, Println(DRY_RUN_POST, record_data))
                         /\ pc' = "m_done"
                         /\ UNCHANGED calls
                    ELSE /\ calls' = Append(calls, [id |-> 0, record_data |-> record_data,
                                                    state |-> "pending"])
                         /\ pc' = "m_create"
                         /\ UNCHANGED out
    /\ UNCHANGED <<dry_run, chan, closed, nsent, cur, tasks, started,
                   searches, arg, ret, thread, command, clock, locals>>

\* agent.create_record(record_data).await?
MainCreateRecordReturns(ok) ==
    /\ pc = "m_create"
    /\ calls' = [calls EXCEPT ![1] = [@ EXCEPT !.state = IF ok THEN "ok" ELSE "err"]]
    /\ pc' = IF ok THEN "m_done" ELSE "m_failed"
    /\ UNCHANGED <<dry_run, chan, closed, nsent, cur, tasks, started, out,
                   searches, arg, ret, thread, command, clock, locals>>

MainNext ==
    \/ ClockTick
    \/ MainReadCredentials
    \/ MainSearchPi
    \/ \E resp \in SearchResponses : MainSearchPiReturns(resp)
    \/ MainBuildAgent
    \/ MainLogin
    \/ MainCompose
    \/ PostToBsky
    \/ \E ok \in BOOLEAN : MainCreateRecordReturns(ok)

MainSpec == MainInit /\ [][MainNext]_vars

\* The whole program: main with any of the three commands.
ProgramInit == Init \/ MainInit

ProgramNext == Next \/ MainNext

ProgramSpec == ProgramInit /\ [][ProgramNext]_vars


\* C11: in dry-run mode no create-record call is ever made, whichever the
\* command, whatever the source delivers and whatever the search returns.
C11_DryRunNeverCreates == dry_run => calls = <<>>

\* A dry-run today run searched, composed and printed its post.
C11_Witness ==
    /\ dry_run
    /\ command = "Today"
    /\ pc = "m_done"
    /\ searches # <<>>
    /\ out = <<Println(DRY_RUN_POST, PostRecordData(locals.post_content.val))>>

\* A printed line that renders a reply to an item: a record whose
\* reply-reference has the item as parent.
RendersReplyTo(line, item) ==
    /\ line.fmt \in {"Message to post: {:#?}", DRY_RUN_POST}
    /\ line.arg.reply # None
    /\ line.arg.reply.val.parent = RefTo(item)

Startup == {"read_credentials", "build", "login", "did", "connect"}

PipelineState ==
    IF pc \in Startup THEN "Connecting"
    ELSE IF Connected THEN (IF closed THEN "Draining" ELSE "Streaming")
    ELSE "Stopped"

Rank(state) ==
    CASE state = "Connecting" -> 0
      [] state = "Streaming" -> 1
      [] state = "Draining" -> 2
      [] state = "Stopped" -> 3

\* A step in which the mention filter takes an event from the buffer.
FilterRuns == Len(chan') < Len(chan)

\* A step of the per-event handling: it starts or ends.
HandlingRuns == started' # started \/ tasks' # tasks

\* C13, amended: the pipeline never moves backwards in the order Connecting,
\* Streaming, Draining, Stopped; from Connecting it goes only to Streaming
\* or, on failure, to Stopped; Streaming is entered only from the successful
\* subscription; the filter and the handling run only in Streaming and, for
\* the events buffered before the close, in Draining.
C13_OrderedStates ==
    [][/\ Rank(PipelineState') >= Rank(PipelineState)
       /\ PipelineState = "Connecting" =>
              PipelineState' \in {"Connecting", "Streaming", "Stopped"}
       /\ (PipelineState # "Streaming" /\ PipelineState' = "Streaming") =>
              pc = "connect"
       /\ (FilterRuns \/ HandlingRuns) =>
              PipelineState \in {"Streaming", "Draining"}]_vars

\* C13 as stated: the same order, with the filter and the handling running
\* only in Streaming.
C13_AsStated ==
    [][/\ Rank(PipelineState') >= Rank(PipelineState)
       /\ PipelineState = "Connecting" =>
              PipelineState' \in {"Connecting", "Streaming", "Stopped"}
       /\ (PipelineState # "Streaming" /\ PipelineState' = "Streaming") =>
              pc = "connect"
       /\ (FilterRuns \/ HandlingRuns) => PipelineState = "Streaming"]_vars

\* The pipeline went through the four states and handled two events.
C13_Witness ==
    /\ pc = "done"
    /\ Len(started) = 2

\* C14: once the source has closed the loop eventually ends and
\* streaming_mode returns Ok; at that point the buffer is empty, no event is
\* being handled and no search or create-record call is in flight; every
\* event taken from the buffer went through the filter and, when it matched,
\* into the handling.
C14_DrainsThenStops ==
    /\ closed ~> pc = "done"
    /\ [](pc = "done" =>
              /\ closed
              /\ chan = <<>>
              /\ cur = NoItem
              /\ tasks = <<>>
              /\ InFlight(searches) = {}
              /\ InFlight(calls) = {})
    /\ [][FilterRuns =>
              IF FilterItem(Head(chan).ev, WATCH_DID) # None
              THEN pc' = "body" /\ cur'.id = Head(chan).id
              ELSE pc' = pc /\ cur' = cur]_vars
    /\ [][(pc = "body" /\ pc' # "body") => started' = Append(started, cur)]_vars

\* The source delivered all its events and closed; the loop has ended after
\* handling what matched.
C14_Witness ==
    /\ pc = "done"
    /\ closed
    /\ nsent = MaxEvents
    /\ started # <<>>

StartupSuccessor(at) ==
    CASE at = "read_credentials" -> "build"
      [] at = "build" -> "login"
      [] at = "login" -> "did"
      [] at = "did" -> "connect"
      [] at = "connect" -> "next"

\* C15: a run whose startup failed has received no event, handled none and
\* created no record; nothing happens after the failure; each startup step
\* is taken once, leading to the next step or to the failure, never back.
C15_StartupFailureIsFatal ==
    /\ [](pc = "failed" =>
              /\ nsent = 0
              /\ chan = <<>>
              /\ cur = NoItem
              /\ started = <<>>
              /\ searches = <<>>
              /\ calls = <<>>)
    /\ [][pc # "failed"]_vars
    /\ [][(pc \in Startup) => (pc' = StartupSuccessor(pc) \/ pc' = "failed")]_vars

\* A startup step failed and the run has ended.
C15_Witness ==
    /\ pc = "failed"
    /\ command = "Stream"
    /\ nsent = 0
    /\ out = <<>>


\* C16 as stated: a search that returned a well-formed response with status
\* "error" leads to no create-record call, to no rendered post and to no
\* composed message, in every command.
C16_StatusErrorNeverPosts ==
    \A i \in 1..Len(searches) :
        (searches[i].state = "ok" /\ searches[i].resp.status = "error") =>
            /\ CallsOf(searches[i].id) = {}
            /\ \A k \in 1..Len(out) : out[k].fmt # DRY_RUN_POST
            /\ locals.post_content = None

\* The order of the steps of the random and today commands.
MainOrder ==
    {<<"m_read_credentials", "m_number">>, <<"m_number", "m_search">>,
     <<"m_search", "m_build">>, <<"m_build", "m_login">>,
     <<"m_login", "m_compose">>, <<"m_compose", "m_post">>,
     <<"m_post", "m_create">>, <<"m_post", "m_done">>, <<"m_create", "m_done">>}
    \cup {<<at, "m_failed">> : at \in {"m_read_credentials", "m_search", "m_build",
                                       "m_login", "m_post", "m_create"}}

C18_TodayNamesSearchedDate ==
    (command = "Today" /\ locals.post_content # None) =>
        StripHyphens(locals.post_content.val.number) = searches[1].number

=============================================================================
